---- MODULE Spec2Model ----
(***************************************************************************)
(* Session controller (useChat hook) of local-chat, with the prompt        *)
(* context manager it drives and the generation client it awaits.          *)
(*                                                                         *)
(* Text is a sequence of atoms (strings).  The atom " " is one blank, the  *)
(* atom "Error" is a piece of text containing the substring 'Error', every *)
(* other atom is text without blanks and without 'Error'.                  *)
(*                                                                         *)
(* React state: the variables hold the state with every queued updater     *)
(* applied (updaters are applied in queue order).  A callback created by a *)
(* render reads the values of that render; they are passed to the          *)
(* operators as the closure record cl.  Between two UI events the          *)
(* component re-renders, so an operation called from a fresh event gets    *)
(* the current values; two calls made from one event share one closure.    *)
(* generateId (Math.random) is modelled as a fresh identifier: chat n gets  *)
(* id n (nextId counts them), turn t gets message ids 2t-1 and 2t.         *)
(***************************************************************************)
EXTENDS Integers, Sequences, FiniteSets, TLC

VARIABLES chats, activeChat, isGenerating, currentAbortController,
          turns, promptContexts, currentPromptId, nextId, split,
          globalImageRegistry, documents, documentIndex, service, page

vars == <<chats, activeChat, isGenerating, currentAbortController,
          turns, promptContexts, currentPromptId, nextId, split,
          globalImageRegistry, documents, documentIndex, service, page>>

\* ---------------------------------------------------------------- bounds
MaxTurns == 3
MaxChunks == 1
MaxChats == 1
MaxSends == 2

\* ------------------------------------------------------------- constants
TitleWords == 6

Null == 0

ApologyText == <<"Sorry">>
NoResponseText == <<"NoProperResponse">>
AgentErrorText == <<"Error">>
ServiceErrorText == <<"Error">>

\* What the actions pass as message text: one text with a blank to trim, and
\* a blank one.
Contents == { <<" ", "a">>, <<" ">> }
Models == { "", "llama" }
Chunks == { "x", "Error" }
Titles == { <<"renamed">> }

\* ------------------------------------------------------------ text helpers
RECURSIVE TrimStart(_)
TrimStart(s) == IF s # <<>> /\ Head(s) = " " THEN TrimStart(Tail(s)) ELSE s

RECURSIVE TrimEnd(_)
TrimEnd(s) ==
  IF s # <<>> /\ s[Len(s)] = " " THEN TrimEnd(SubSeq(s, 1, Len(s) - 1)) ELSE s

Trim(s) == TrimEnd(TrimStart(s))

\* String.prototype.split(" "): the words between blanks, empty words kept.
RECURSIVE SplitBlank(_, _)
SplitBlank(s, word) ==
  IF s = <<>> THEN <<word>>
  ELSE IF Head(s) = " " THEN <<word>> \o SplitBlank(Tail(s), <<>>)
  ELSE SplitBlank(Tail(s), Append(word, Head(s)))

RECURSIVE JoinBlank(_)
JoinBlank(words) ==
  IF words = <<>> THEN <<>>
  ELSE IF Len(words) = 1 THEN words[1]
  ELSE words[1] \o <<" ">> \o JoinBlank(Tail(words))

Includes(text, atom) == \E i \in 1..Len(text) : text[i] = atom

generateTitle(content) ==
  LET all == SplitBlank(Trim(content), <<>>)
      words == SubSeq(all, 1, IF Len(all) < TitleWords THEN Len(all) ELSE TitleWords)
  IN JoinBlank(words) \o (IF Len(words) = TitleWords THEN <<"...">> ELSE <<>>)

\* ------------------------------------------------------- character text
Min(a, b) == IF a < b THEN a ELSE b

Max(a, b) == IF a > b THEN a ELSE b

\* The whitespace characters of a text given by its characters.
Whitespace == {" ", "\n", "\t"}

\* Text given by its characters is a sequence of characters, each a
\* one-character string; "NUL" and "BEL" stand for the control characters
\* U+0000 and U+0007.  A Map is the sequence of its entries [key, value] in
\* insertion order.
UpperCase ==
  <<"A","B","C","D","E","F","G","H","I","J","K","L","M","N","O","P","Q","R",
      "S","T","U","V","W","X","Y","Z">>

LowerCase ==
  <<"a","b","c","d","e","f","g","h","i","j","k","l","m","n","o","p","q","r",
      "s","t","u","v","w","x","y","z">>

Digits == {"0", "1", "2", "3", "4", "5", "6", "7", "8", "9"}

NonPrintable == {"NUL", "BEL"}

Range(f) == { f[i] : i \in DOMAIN f }

lowerChar(c) ==
  IF \E i \in DOMAIN UpperCase : UpperCase[i] = c
  THEN LowerCase[CHOOSE i \in DOMAIN UpperCase : UpperCase[i] = c]
  ELSE c

toLowerCase(s) == [i \in 1..Len(s) |-> lowerChar(s[i])]

\* \w of a regular expression.
isWordChar(c) == c \in Range(UpperCase) \cup Range(LowerCase) \cup Digits \cup {"_"}

\* replace(/[^\w\s]/g, ' ')
replaceNonWord(s) ==
  [i \in 1..Len(s) |-> IF isWordChar(s[i]) \/ s[i] \in Whitespace THEN s[i] ELSE " "]

\* The least element of a non-empty set of numbers.
Least(S) == CHOOSE i \in S : \A j \in S : i <= j

includesText(s, sub) ==
  \E i \in 0..(Len(s) - Len(sub)) : SubSeq(s, i + 1, i + Len(sub)) = sub

startsWith(s, prefix) ==
  Len(prefix) <= Len(s) /\ SubSeq(s, 1, Len(prefix)) = prefix

\* s.indexOf(sub), counted from 0; -1 when sub does not occur.
indexOf(s, sub) ==
  IF includesText(s, sub)
  THEN Least({ i \in 0..(Len(s) - Len(sub)) : SubSeq(s, i + 1, i + Len(sub)) = sub })
  ELSE -1

\* s.split(sep) for a one-character separator.
RECURSIVE splitOn(_, _)
splitOn(s, sep) ==
  LET at == { i \in 1..Len(s) : s[i] = sep }
  IN IF at = {} THEN <<s>>
     ELSE <<SubSeq(s, 1, Least(at) - 1)>>
            \o splitOn(SubSeq(s, Least(at) + 1, Len(s)), sep)

\* parts.join(sep)
RECURSIVE joinWith(_, _)
joinWith(parts, sep) ==
  IF parts = <<>> THEN <<>>
  ELSE IF Len(parts) = 1 THEN parts[1]
  ELSE parts[1] \o sep \o joinWith(Tail(parts), sep)

\* s.split(/\s+/) without the empty strings it yields at a blank start or
\* end: both callers drop them with their filter on the word length.
RECURSIVE splitWhitespace(_)
splitWhitespace(s) ==
  LET solid == { i \in 1..Len(s) : s[i] \notin Whitespace }
  IN IF solid = {} THEN <<>>
     ELSE
       LET first == Least(solid)
           gaps == { i \in (first + 1)..Len(s) : s[i] \in Whitespace }
           last == IF gaps = {} THEN Len(s) ELSE Least(gaps) - 1
       IN <<SubSeq(s, first, last)>>
            \o splitWhitespace(SubSeq(s, last + 1, Len(s)))

\* [...new Set(words)]: the first occurrence of each word, in order.
RECURSIVE unique(_)
unique(words) ==
  IF words = <<>> THEN <<>>
  ELSE LET front == SubSeq(words, 1, Len(words) - 1)
           last == words[Len(words)]
       IN IF \E i \in 1..Len(front) : front[i] = last
          THEN unique(front)
          ELSE Append(unique(front), last)

\* The words of a text longer than minLength, as both the index and the
\* search take them: lower-cased, punctuation blanked, split at whitespace.
wordsLongerThan(s, minLength) ==
  SelectSeq(splitWhitespace(replaceNonWord(toLowerCase(s))),
            LAMBDA word : Len(word) > minLength)

\* Map operations on a sequence of entries.
mapHas(entries, key) == \E i \in 1..Len(entries) : entries[i].key = key

mapGet(entries, key) ==
  entries[CHOOSE i \in 1..Len(entries) : entries[i].key = key].value

\* Mutant: set always adds an entry.
mapSet_Appends(entries, key, value) ==
  Append(entries, [key |-> key, value |-> value])

mapSet(entries, key, value) ==
  IF mapHas(entries, key)
  THEN [i \in 1..Len(entries) |->
          IF entries[i].key = key THEN [key |-> key, value |-> value]
          ELSE entries[i]]
  ELSE Append(entries, [key |-> key, value |-> value])

mapDelete(entries, key) == SelectSeq(entries, LAMBDA e : e.key # key)

\* --------------------------------------------------------- state as a value
HookState ==
  [chats |-> chats, activeChat |-> activeChat, isGenerating |-> isGenerating,
   currentAbortController |-> currentAbortController, turns |-> turns,
   promptContexts |-> promptContexts, currentPromptId |-> currentPromptId,
   nextId |-> nextId, globalImageRegistry |-> globalImageRegistry]

\* What the callbacks of the current render have captured.
Closure ==
  [chats |-> chats, activeChat |-> activeChat,
   currentAbortController |-> currentAbortController]

\* The hook's state becomes S.
CommitHook(S) ==
  /\ chats' = S.chats
  /\ activeChat' = S.activeChat
  /\ isGenerating' = S.isGenerating
  /\ currentAbortController' = S.currentAbortController
  /\ turns' = S.turns
  /\ promptContexts' = S.promptContexts
  /\ currentPromptId' = S.currentPromptId
  /\ nextId' = S.nextId
  /\ globalImageRegistry' = S.globalImageRegistry

Commit(S) ==
  /\ CommitHook(S)
  /\ UNCHANGED <<split, documents, documentIndex, service, page>>

ChatIds(chs) == { chs[i].id : i \in 1..Len(chs) }

\* chats.find(c => c.id === chatId): HasChat tells whether it finds one.
HasChat(chs, chatId) == chatId \in ChatIds(chs)

FindChat(chs, chatId) == chs[CHOOSE i \in 1..Len(chs) : chs[i].id = chatId]

\* prev.map(chat => chat.id === chatId ? f(chat) : chat)
MapChat(chs, chatId, f(_)) ==
  [i \in 1..Len(chs) |-> IF chs[i].id = chatId THEN f(chs[i]) ELSE chs[i]]

\* chat.messages.map(msg => msg.id === msgId ? g(msg) : msg)
MapMessage(msgs, msgId, g(_)) ==
  [i \in 1..Len(msgs) |-> IF msgs[i].id = msgId THEN g(msgs[i]) ELSE msgs[i]]


\* ------------------------------------------------- DocumentContextManager
\* generatePromptId: a fresh id per call; the n-th prompt gets id n.  The
\* timestamp of a context is its place in the order of creation.
generatePromptId(S) == Len(S.promptContexts) + 1

startNewPrompt(S) ==
  LET id == generatePromptId(S)
  IN [S EXCEPT !.currentPromptId = id,
               !.promptContexts = Append(@, [promptId |-> id, documents |-> <<>>,
                                                  timestamp |-> id])]

\* The place of the context of promptId among the contexts; 0 when absent.
contextIndex(contexts, promptId) ==
  IF \E i \in 1..Len(contexts) : contexts[i].promptId = promptId
  THEN CHOOSE i \in 1..Len(contexts) : contexts[i].promptId = promptId
  ELSE 0

\* Mutant: the document goes to the oldest context.
addDocumentToCurrentPrompt_ToOldest(S, fileName, content, isImage) ==
  LET S1 == IF S.currentPromptId = Null THEN startNewPrompt(S) ELSE S
  IN IF fileName \notin Range(S1.promptContexts[1].documents)
     THEN [S1 EXCEPT !.promptContexts[1].documents = Append(@, fileName)]
     ELSE S1

\* The timestamp of a registry entry is the number of contexts created by
\* then.
addDocumentToCurrentPrompt(S, fileName, content, isImage) ==
  LET S1 == IF S.currentPromptId = Null THEN startNewPrompt(S) ELSE S
      i == contextIndex(S1.promptContexts, S1.currentPromptId)
      S2 == IF i # 0 /\ fileName \notin Range(S1.promptContexts[i].documents)
            THEN [S1 EXCEPT !.promptContexts[i].documents = Append(@, fileName)]
            ELSE S1
  IN IF isImage
     THEN [S2 EXCEPT !.globalImageRegistry =
             mapSet(@, fileName,
                    [fileName |-> fileName, content |-> content,
                     timestamp |-> Len(S1.promptContexts),
                     promptId |-> S1.currentPromptId])]
     ELSE S2

ImageTypePrefix ==
  <<"i","m","a","g","e","/">>

\* files.forEach(file => addDocumentToCurrentPrompt(file.name, '', isImage))
RECURSIVE addFiles(_, _)
addFiles(S, files) ==
  IF files = <<>> THEN S
  ELSE addFiles(addDocumentToCurrentPrompt(S, Head(files).name, <<>>,
                                           startsWith(Head(files).type, ImageTypePrefix)),
                Tail(files))

\* The number of contexts cleanupOldContexts keeps.
MaxContexts == 50

\* The place the context at place i takes when the contexts are sorted by
\* timestamp (Array.prototype.sort is stable), counted from 0.
sortedPlace(contexts, i) ==
  Cardinality({ j \in 1..Len(contexts) :
                  \/ contexts[j].timestamp < contexts[i].timestamp
                  \/ contexts[j].timestamp = contexts[i].timestamp /\ j < i })

\* Mutant: the newest contexts are removed.
cleanupOldContexts_Newest(S) ==
  [S EXCEPT !.promptContexts = SubSeq(@, 1, Min(Len(@), MaxContexts))]

cleanupOldContexts(S) ==
  LET contexts == S.promptContexts
      toRemove == { contexts[i].promptId : i \in
                      { j \in 1..Len(contexts) :
                          sortedPlace(contexts, j) < Len(contexts) - MaxContexts } }
  IN IF Len(contexts) > MaxContexts
     THEN [S EXCEPT !.promptContexts =
             SelectSeq(@, LAMBDA context : context.promptId \notin toRemove)]
     ELSE S

\* ------------------------------------------------------------ useChat hook
createNewChat(S, model, title) ==
  [S EXCEPT !.chats = <<[id |-> S.nextId, title |-> title, messages |-> <<>>,
                         model |-> model]>> \o @,
            !.nextId = @ + 1]

deleteChat(S, chatId) ==
  [S EXCEPT !.chats = SelectSeq(@, LAMBDA chat : chat.id # chatId),
            !.activeChat = IF @ = chatId THEN Null ELSE @]

clearChat(S, chatId) ==
  LET cleared(chat) == [chat EXCEPT !.messages = <<>>]
  IN [S EXCEPT !.chats = MapChat(@, chatId, cleared)]

updateChatTitle(S, chatId, title) ==
  LET retitled(chat) == [chat EXCEPT !.title = title]
  IN [S EXCEPT !.chats = MapChat(@, chatId, retitled)]

\* stopGeneration reads currentAbortController from its closure.
stopGeneration(S, cl) ==
  IF cl.currentAbortController # Null
  THEN [S EXCEPT !.turns[cl.currentAbortController].aborted = TRUE,
                 !.currentAbortController = Null,
                 !.isGenerating = FALSE]
  ELSE S

\* The turns whose generation call has not settled.
InFlight(trns) ==
  { t \in 1..Len(trns) : trns[t].pc \in {"context", "streaming"} }

\* Mutant: every send recomputes the title.
titleAfterAppend_Always(chat, content) == generateTitle(content)

\* The title sendMessage's updater gives a chat it appends to.
titleAfterAppend(chat, content) ==
  IF Len(chat.messages) = 0 THEN generateTitle(content) ELSE chat.title

\* sendMessage returns at once on blank content or an empty model.
sendRejected(content, model) == Trim(content) = <<>> \/ model = ""

\* sendMessage up to its first await (getDocumentContext); files are the
\* [name, type] of the files sent along (shown with the user message, which
\* is not modelled).  The turn record
\* holds the locals the continuation keeps: chatId, assistantMessage.id, the
\* AbortController (its aborted flag) and fullResponse; response is what the
\* generation client has accumulated.
sendMessage(S, cl, content, model, initialResponse, files) ==
  IF sendRejected(content, model) THEN S
  ELSE
    LET S1 == startNewPrompt(S)
        S2 == stopGeneration(S1, cl)
        hasTarget == HasChat(cl.chats, cl.activeChat)
        S3 == IF ~hasTarget
              THEN [createNewChat(S2, model, generateTitle(content))
                      EXCEPT !.activeChat = S2.nextId]
              ELSE S2
        chatId == IF ~hasTarget THEN S2.nextId ELSE cl.activeChat
        userMessage == [id |-> 2 * Len(S.turns) + 1, role |-> "user",
                        content |-> Trim(content), isStreaming |-> FALSE]
        assistantMessage == [id |-> 2 * Len(S.turns) + 2, role |-> "assistant",
                             content |-> initialResponse, isStreaming |-> TRUE]
        appended(chat) ==
          [chat EXCEPT !.messages = @ \o <<userMessage, assistantMessage>>,
                       !.model = model,
                       !.title = titleAfterAppend(chat, content)]
        turn == [chatId |-> chatId, userMessage |-> userMessage.id,
                 assistantMessage |-> assistantMessage.id,
                 promptId |-> S1.currentPromptId, aborted |-> FALSE,
                 fullResponse |-> initialResponse, response |-> <<>>,
                 pc |-> "context", concurrent |-> InFlight(S.turns)]
    IN addFiles([S3 EXCEPT !.chats = MapChat(@, chatId, appended),
                           !.isGenerating = TRUE,
                           !.turns = Append(@, turn),
                           !.currentAbortController = Len(S3.turns) + 1],
                files)

regenerateLastMessage(S, cl, model) ==
  LET targetChat == FindChat(cl.chats, cl.activeChat)
  IN IF ~HasChat(cl.chats, cl.activeChat) THEN S
     ELSE IF Len(targetChat.messages) < 2 THEN S
     ELSE
       LET messages == targetChat.messages
           lastUserMessage == messages[Len(messages) - 1]
           updatedMessages == SubSeq(messages, 1, Len(messages) - 1)
           dropped(chat) == [chat EXCEPT !.messages = updatedMessages]
       IN IF lastUserMessage.role # "user" THEN S
          ELSE sendMessage([S EXCEPT !.chats = MapChat(@, cl.activeChat, dropped)],
                           cl, lastUserMessage.content, model, <<>>, <<>>)

\* messages.findIndex(m => m.id === messageId), counted from 1; 0 for -1.
findIndex(messages, messageId) ==
  LET found == { i \in 1..Len(messages) : messages[i].id = messageId }
  IN IF found = {} THEN 0 ELSE CHOOSE i \in found : \A j \in found : i <= j

\* Mutant: the role of the addressed message is not looked at.
editRejected_AnyRole(messages, messageIndex) == messageIndex = 0

\* editAndResendMessage returns when the id is absent or not a user message.
editRejected(messages, messageIndex) ==
  messageIndex = 0 \/ messages[messageIndex].role # "user"

editAndResendMessage(S, cl, messageId, newContent, model) ==
  LET targetChat == FindChat(cl.chats, cl.activeChat)
  IN IF ~HasChat(cl.chats, cl.activeChat) \/ Trim(newContent) = <<>> THEN S
     ELSE
       LET messages == targetChat.messages
           messageIndex == findIndex(messages, messageId)
           truncatedMessages == SubSeq(messages, 1, messageIndex - 1)
           truncated(chat) == [chat EXCEPT !.messages = truncatedMessages]
       IN IF editRejected(messages, messageIndex) THEN S
          ELSE sendMessage([S EXCEPT !.chats = MapChat(@, cl.activeChat, truncated)],
                           cl, newContent, model, <<>>, <<>>)

\* The token callback handed to streamMessage.
\* Mutant: the chunk replaces what has been accumulated.
onChunk_Replaces(S, t, chunk) ==
  IF S.turns[t].aborted THEN S
  ELSE
    LET withContent(msg) == [msg EXCEPT !.content = chunk]
        updated(chat) ==
          [chat EXCEPT !.messages =
             MapMessage(@, S.turns[t].assistantMessage, withContent)]
    IN [S EXCEPT !.turns[t].fullResponse = chunk,
                 !.chats = MapChat(@, S.turns[t].chatId, updated)]

onChunk(S, t, chunk) ==
  IF S.turns[t].aborted THEN S
  ELSE
    LET fullResponse == S.turns[t].fullResponse \o chunk
        withContent(msg) == [msg EXCEPT !.content = fullResponse]
        updated(chat) ==
          [chat EXCEPT !.messages =
             MapMessage(@, S.turns[t].assistantMessage, withContent)]
    IN [S EXCEPT !.turns[t].fullResponse = fullResponse,
                 !.chats = MapChat(@, S.turns[t].chatId, updated)]

\* Mutant: the final write goes to the last message of the chat.
markComplete_LastMessage(S, t, response) ==
  LET fullResponse == S.turns[t].fullResponse
      updated(chat) ==
        IF chat.messages = <<>> THEN chat
        ELSE [chat EXCEPT !.messages[Len(chat.messages)] =
                [@ EXCEPT !.content = IF fullResponse # <<>> THEN fullResponse
                                      ELSE response,
                          !.isStreaming = FALSE]]
  IN [S EXCEPT !.chats = MapChat(@, S.turns[t].chatId, updated),
               !.turns[t].pc = "completed"]

\* "Mark streaming as complete".
markComplete(S, t, response) ==
  LET fullResponse == S.turns[t].fullResponse
      done(msg) == [msg EXCEPT
                      !.content = IF fullResponse # <<>> THEN fullResponse ELSE response,
                      !.isStreaming = FALSE]
      updated(chat) ==
        [chat EXCEPT !.messages = MapMessage(@, S.turns[t].assistantMessage, done)]
  IN [S EXCEPT !.chats = MapChat(@, S.turns[t].chatId, updated),
               !.turns[t].pc = "completed"]

\* Mutant: the catch block leaves the streaming flag set.
markError_StillStreaming(S, t) ==
  LET failed(msg) == [msg EXCEPT !.content = ApologyText]
      updated(chat) ==
        [chat EXCEPT !.messages = MapMessage(@, S.turns[t].assistantMessage, failed)]
  IN [S EXCEPT !.chats = MapChat(@, S.turns[t].chatId, updated),
               !.turns[t].pc = "errored"]

\* The catch block: "Update message with error".
markError(S, t) ==
  LET failed(msg) == [msg EXCEPT !.content = ApologyText, !.isStreaming = FALSE]
      updated(chat) ==
        [chat EXCEPT !.messages = MapMessage(@, S.turns[t].assistantMessage, failed)]
  IN [S EXCEPT !.chats = MapChat(@, S.turns[t].chatId, updated),
               !.turns[t].pc = "errored"]

\* Mutant: the finally block forgets the controller.
finallyClear_KeepsController(S) == [S EXCEPT !.isGenerating = FALSE]

\* The finally block.
finallyClear(S) ==
  [S EXCEPT !.isGenerating = FALSE, !.currentAbortController = Null]

\* sendMessage from the point where streamMessage has returned response.
afterStream(S, t, response) ==
  LET S1 == [S EXCEPT !.turns[t].response = response]
  IN finallyClear(IF response = <<>> \/ Includes(response, "Error")
                  THEN markError(S1, t)
                  ELSE markComplete(S1, t, response))

\* No call of splitText is being followed.
NotCalled == [pc |-> "idle"]

\* EnhancedChatService as constructed: web search off, no history.  calls
\* are the calls of streamMessage and searches the queries put to the
\* keyword index, each in the order they were made.
InitService ==
  [useWebSearch |-> FALSE, conversationHistory |-> <<>>, calls |-> <<>>,
   searches |-> <<>>]

\* No handleSendMessage of the page is waiting.
InitPage ==
  [pc |-> "idle", prompt |-> <<>>, files |-> <<>>, call |-> 0, turn |-> 0,
   cl |-> [chats |-> <<>>, activeChat |-> Null,
           currentAbortController |-> Null]]

InitHook ==
  /\ service = InitService
  /\ page = InitPage
  /\ chats = <<>>
  /\ activeChat = Null
  /\ isGenerating = FALSE
  /\ currentAbortController = Null
  /\ turns = <<>>
  /\ promptContexts = <<>>
  /\ currentPromptId = Null
  /\ nextId = 1
  /\ globalImageRegistry = <<>>

\* The document store starts empty.
InitStore == documents = <<>> /\ documentIndex = <<>>

Init == InitHook /\ InitStore /\ split = NotCalled

\* ----------------------------------------------------------------- actions
\* The message ids a caller may pass: those handed out so far and one more.
MessageIds == 1..(2 * Len(turns) + 1)

\* The number of chunks the generation client has emitted, over all turns.
RECURSIVE Emitted(_)
Emitted(trns) ==
  IF trns = <<>> THEN 0 ELSE Len(Head(trns).response) + Emitted(Tail(trns))

\* The number of chats created so far.
Created == nextId - 1

CreateNewChat ==
  /\ Created < MaxChats
  /\ Commit(createNewChat(HookState, "", <<"New", " ", "Chat">>))

SetActiveChat ==
  \E chatId \in ChatIds(chats) :
    /\ activeChat' = chatId
    /\ UNCHANGED <<chats, isGenerating, currentAbortController, turns,
                   promptContexts, currentPromptId, nextId, split,
                   globalImageRegistry, documents, documentIndex,
                   service, page>>

DeleteChat ==
  \E chatId \in ChatIds(chats) : Commit(deleteChat(HookState, chatId))

ClearChat ==
  \E chatId \in ChatIds(chats) : Commit(clearChat(HookState, chatId))

UpdateChatTitle ==
  \E chatId \in ChatIds(chats), title \in Titles :
    Commit(updateChatTitle(HookState, chatId, title))

StopGeneration ==
  \E cl \in {Closure} : Commit(stopGeneration(HookState, cl))

\* sendMessage creates a chat when no chat is active: such a send counts
\* against the bound on chats.
SendMessage ==
  \E content \in Contents, model \in Models :
    /\ Len(turns) < MaxTurns
    /\ HasChat(chats, activeChat) \/ Created < MaxChats
    /\ Commit(sendMessage(HookState, Closure, content, model, <<>>, <<>>))

RegenerateLastMessage ==
  \E model \in Models :
    /\ Len(turns) < MaxTurns
    /\ Commit(regenerateLastMessage(HookState, Closure, model))

EditAndResendMessage ==
  \E messageId \in MessageIds, newContent \in Contents, model \in Models :
    /\ Len(turns) < MaxTurns
    /\ Commit(editAndResendMessage(HookState, Closure, messageId, newContent, model))

\* ChatMessages.handleSaveEdit(true), the Resend button: onEditMessage and
\* then onResendMessage, both editAndResendMessage of the same render.
HandleSaveEdit ==
  \E messageId \in MessageIds, newContent \in Contents :
    /\ Len(turns) + 1 < MaxTurns
    /\ Trim(newContent) # <<>>
    /\ Commit(editAndResendMessage(
                editAndResendMessage(HookState, Closure, messageId, newContent, "llama"),
                Closure, messageId, newContent, "llama"))

\* getDocumentContext resolves; streamMessage is called.
ContextResolved ==
  \E t \in 1..Len(turns) :
    /\ turns[t].pc = "context"
    /\ turns' = [turns EXCEPT ![t].pc = "streaming"]
    /\ UNCHANGED <<chats, activeChat, isGenerating, currentAbortController,
                   promptContexts, currentPromptId, nextId, split,
                   globalImageRegistry, documents, documentIndex,
                   service, page>>

\* The generation client emits a chunk: it is added to the client's
\* accumulator and passed to onChunk.
TokenFor(t, chunk) ==
  /\ turns[t].pc = "streaming"
  /\ Emitted(turns) < MaxChunks
  /\ Commit(onChunk([HookState EXCEPT !.turns[t].response = @ \o <<chunk>>],
                    t, <<chunk>>))

Token == \E t \in 1..Len(turns), chunk \in Chunks : TokenFor(t, chunk)

\* streamMessage returns the accumulated response.
StreamReturnsFor(t) ==
  /\ turns[t].pc = "streaming"
  /\ Commit(afterStream(HookState, t,
              IF turns[t].response = <<>> THEN NoResponseText
              ELSE turns[t].response))

StreamReturns == \E t \in 1..Len(turns) : StreamReturnsFor(t)

\* The generation client fails.  "agent": LangGraphChatAgent.streamMessage
\* catches, passes the error text to onChunk and returns it.  "service":
\* EnhancedChatService.streamMessage catches and returns 'Error: ...'.
\* "empty": the RAG chain answers with the empty string.
FailureKinds == {"agent", "service", "empty"}

StreamFailsFor(t, kind) ==
  /\ turns[t].pc = "streaming"
  /\ Commit(IF kind = "agent"
            THEN afterStream(onChunk(HookState, t, AgentErrorText), t, AgentErrorText)
            ELSE IF kind = "service"
            THEN afterStream(HookState, t, ServiceErrorText)
            ELSE afterStream(HookState, t, <<>>))

StreamFails ==
  \E t \in 1..Len(turns), kind \in FailureKinds : StreamFailsFor(t, kind)

Next ==
  \/ CreateNewChat
  \/ SetActiveChat
  \/ DeleteChat
  \/ ClearChat
  \/ UpdateChatTitle
  \/ StopGeneration
  \/ SendMessage
  \/ RegenerateLastMessage
  \/ EditAndResendMessage
  \/ HandleSaveEdit
  \/ ContextResolved
  \/ Token
  \/ StreamReturns
  \/ StreamFails

Spec == Init /\ [][Next]_vars

\* ---------------------------------------------------------------- splitText
\* DocumentProcessor.splitText, one loop iteration per step.  A text is its
\* length and the layout of its whitespace; positions count from 0.  A chunk
\* is the half-open range [from, to) of the positions it holds.  The clamp
\* chunkSize / 2 is fractional for an odd size, so chunkOverlap and start
\* are held in halves of a position (2 * the source's value).
MinChunkSize == 100
MaxChunkSize == 5000
MAX_TEXT_SIZE == 1048576
IterationSlack == 10

\* Width of the whitespace at both ends of a "padded" text.
Margin == 120

Layouts == { "solid", "blank", "spaced", "padded" }
TextLengths == { 0, 1, 99, 100, 101, 250, 1001 }
ChunkSizes == { 1, 101, 150, 1000, 9999 }
ChunkOverlaps == { -5, 0, 1, 50, 75, 200, 9999 }

\* Whether the character at position p is whitespace.
isBlankAt(text, p) ==
  CASE text.layout = "solid" -> FALSE
    [] text.layout = "blank" -> TRUE
    [] text.layout = "spaced" -> p % 4 = 3
    [] text.layout = "padded" -> p < Margin \/ p >= text.length - Margin
    [] text.layout = "chars" -> text.chars[p + 1] \in Whitespace

\* text.slice(start, end) on a text of the given length: both ends are
\* truncated towards zero to whole positions, and a negative start counts
\* from the end of the text.
slice(length, start, end) ==
  LET whole(x) == IF x >= 0 THEN x \div 2 ELSE -((-x) \div 2)
      from == IF start < 0 THEN Max(length + whole(start), 0)
              ELSE Min(whole(start), length)
      to == Min(whole(end), length)
  IN [from |-> from, to |-> Max(from, to)]

\* chunk.trim(): the range without its leading and trailing whitespace,
\* empty (from = to) when there is nothing else.
trim(text, chunk) ==
  LET inside == chunk.from .. (chunk.to - 1)
  IN IF \A p \in inside : isBlankAt(text, p)
     THEN [from |-> chunk.from, to |-> chunk.from]
     ELSE [from |-> CHOOSE p \in inside :
                      /\ ~isBlankAt(text, p)
                      /\ \A q \in chunk.from .. (p - 1) : isBlankAt(text, q),
           to |-> 1 + CHOOSE p \in inside :
                      /\ ~isBlankAt(text, p)
                      /\ \A q \in (p + 1) .. (chunk.to - 1) : isBlankAt(text, q)]

\* Mutant: the overlap is added instead of subtracted.
nextStart_AddsOverlap(end, chunkSize, chunkOverlap, length) ==
  end + chunkOverlap

\* start = end - chunkOverlap, with the progress check.
nextStart(end, chunkSize, chunkOverlap, length) ==
  LET start == end - chunkOverlap
  IN IF start <= end - 2 * chunkSize /\ end < 2 * length THEN end ELSE start

\* chunks.filter(chunk => chunk.length > 0)
filterNonEmpty(chunks) == SelectSeq(chunks, LAMBDA chunk : chunk.to > chunk.from)

\* Entry of splitText up to the loop: empty text, truncation, clamps.
splitEnter(text, chunkSize, chunkOverlap) ==
  IF text.length = 0
  THEN [pc |-> "returned", text |-> text, chunkSize |-> chunkSize,
        chunkOverlap |-> 2 * chunkOverlap, chunks |-> <<>>, start |-> 0,
        iterations |-> 0, maxIterations |-> 0]
  ELSE
    LET truncated == [text EXCEPT !.length = Min(@, MAX_TEXT_SIZE)]
        size == Max(MinChunkSize, Min(chunkSize, MaxChunkSize))
        overlap == Max(0, Min(2 * chunkOverlap, size))
        stride == 2 * size - overlap
    IN [pc |-> "loop", text |-> truncated, chunkSize |-> size,
        chunkOverlap |-> overlap, chunks |-> <<>>, start |-> 0,
        iterations |-> 0,
        maxIterations |->
          ((2 * truncated.length + stride - 1) \div stride) + IterationSlack]

\* One pass through the loop body.
splitIterate(s) ==
  LET end == Min(s.start + 2 * s.chunkSize, 2 * s.text.length)
      chunk == trim(s.text, slice(s.text.length, s.start, end))
      pushed == IF chunk.to > chunk.from THEN Append(s.chunks, chunk)
                ELSE s.chunks
      start == nextStart(end, s.chunkSize, s.chunkOverlap, s.text.length)
  IN IF start >= 2 * s.text.length
     THEN [s EXCEPT !.chunks = filterNonEmpty(pushed), !.start = start,
                    !.pc = "returned"]
     ELSE [s EXCEPT !.chunks = pushed, !.start = start,
                    !.iterations = @ + 1]

\* The loop condition.
splitContinues(s) ==
  s.start < 2 * s.text.length /\ s.iterations < s.maxIterations

HookUnchanged ==
  UNCHANGED <<chats, activeChat, isGenerating, currentAbortController,
              turns, promptContexts, currentPromptId, nextId,
              globalImageRegistry, service, page>>

StoreUnchanged == UNCHANGED <<documents, documentIndex>>

\* A call of splitText with some text, chunk size and overlap is pending.
InitSplit ==
  /\ InitHook
  /\ InitStore
  /\ split \in [pc : {"called"},
                text : [length : TextLengths, layout : Layouts],
                chunkSize : ChunkSizes,
                chunkOverlap : ChunkOverlaps]

SplitEnter ==
  /\ split.pc = "called"
  /\ split' = splitEnter(split.text, split.chunkSize, split.chunkOverlap)
  /\ HookUnchanged
  /\ StoreUnchanged

SplitIterate ==
  /\ split.pc = "loop"
  /\ splitContinues(split)
  /\ split' = splitIterate(split)
  /\ HookUnchanged
  /\ StoreUnchanged

SplitExit ==
  /\ split.pc = "loop"
  /\ ~splitContinues(split)
  /\ split' = [split EXCEPT !.chunks = filterNonEmpty(@), !.pc = "returned"]
  /\ HookUnchanged
  /\ StoreUnchanged

NextSplit ==
  \/ SplitEnter
  \/ SplitIterate
  \/ SplitExit

\* The loop is plain sequential code: a step that can be taken is taken.
SpecSplit == InitSplit /\ [][NextSplit]_vars /\ WF_vars(NextSplit)
\* ------------------------------------------------------------ document store
\* DocumentProcessor: the store of the chunks and keywords of every source.
ImageTag ==
  <<"I","M","A","G","E","_","F","I","L","E",":">>

BinaryTag ==
  <<"B","I","N","A","R","Y","_","F","I","L","E",":">>

DocumentTag ==
  <<"D","O","C","U","M","E","N","T","_","F","I","L","E",":">>

ContentMarker ==
  <<"C","o","n","t","e","n","t",":","\n">>

BinaryReferenceHead ==
  <<"F","i","l","e",":"," ">>

BinaryReferenceTail ==
  <<" ","(","b","i","n","a","r","y"," ","c","o","n","t","e","n","t"," ","-",
      " ","n","o","t"," ","p","r","o","c","e","s","s","e","d"," ","f","o",
      "r"," ","t","e","x","t"," ","s","e","a","r","c","h",")">>

ImageNote ==
  <<"[","B","a","s","e","6","4"," ","i","m","a","g","e"," ","d","a","t","a",
      " ","a","v","a","i","l","a","b","l","e"," ","f","o","r"," ","v","i",
      "s","i","o","n"," ","m","o","d","e","l","s","]">>

isBinaryContent(content) ==
  \/ \E i \in 1..Len(content) : content[i] = "NUL"
  \/ 10 * Cardinality({ i \in 1..Len(content) : content[i] \in NonPrintable })
       > Len(content)

\* splitText run to its return: the chunks as texts.
RECURSIVE splitLoop(_)
splitLoop(s) ==
  IF s.pc = "returned" THEN s.chunks
  ELSE IF splitContinues(s) THEN splitLoop(splitIterate(s))
  ELSE filterNonEmpty(s.chunks)

splitText(text, chunkSize, chunkOverlap) ==
  LET ranges == splitLoop(splitEnter(
                  [length |-> Len(text), layout |-> "chars", chars |-> text],
                  chunkSize, chunkOverlap))
  IN [i \in 1..Len(ranges) |-> SubSeq(text, ranges[i].from + 1, ranges[i].to)]

\* `${fileName}-chunk-${index}`
chunkId(fileName, index) == <<fileName, "-chunk-", index>>

\* Mutant: totalChunks is taken one too large.
documentChunks_OneMore(fileName, chunks) ==
  [i \in 1..Len(chunks) |->
     [id |-> chunkId(fileName, i - 1),
      content |-> chunks[i],
      metadata |-> [source |-> fileName, chunkIndex |-> i - 1,
                    totalChunks |-> Len(chunks) + 1]]]

\* chunks.map((chunk, index) => ({id, content, metadata}))
documentChunks(fileName, chunks) ==
  [i \in 1..Len(chunks) |->
     [id |-> chunkId(fileName, i - 1),
      content |-> chunks[i],
      metadata |-> [source |-> fileName, chunkIndex |-> i - 1,
                    totalChunks |-> Len(chunks)]]]

\* The chunk texts processDocument derives from text that is not binary.
textChunks(text) ==
  IF startsWith(text, ImageTag)
  THEN LET lines == splitOn(text, "\n")
           metadataLines == SubSeq(lines, 1, Min(5, Len(lines)))
       IN <<joinWith(metadataLines, <<"\n">>) \o <<"\n">> \o ImageNote>>
  ELSE IF startsWith(text, BinaryTag) THEN <<text>>
  ELSE IF startsWith(text, DocumentTag)
  THEN LET contentStart == indexOf(text, ContentMarker)
       IN IF contentStart # -1
          THEN LET metadata == SubSeq(text, 1, contentStart + 9)
                   actualContent == SubSeq(text, contentStart + 10, Len(text))
                   maxChunkSize == Min(1000, Max(500, Len(actualContent) \div 50))
                   contentChunks == splitText(actualContent, maxChunkSize, 200)
               IN [i \in 1..Len(contentChunks) |->
                     IF i = 1 THEN metadata \o contentChunks[i]
                     ELSE contentChunks[i]]
          ELSE splitText(text, 1000, 200)
  ELSE splitText(text, 1000, 200)

\* The keywords buildSimpleIndex stores for a source.
keywordsOf(chunks) ==
  LET RECURSIVE gather(_)
      gather(i) == IF i > Len(chunks) THEN <<>>
                   ELSE wordsLongerThan(chunks[i].content, 3) \o gather(i + 1)
  IN unique(gather(1))

buildSimpleIndex(index, fileName, chunks) ==
  mapSet(index, fileName, keywordsOf(chunks))

\* processDocument on the store [documents, documentIndex]; threw tells
\* that it ended in its throw and left the store alone.
processDocument(store, fileName, content) ==
  IF content = <<>> THEN [store EXCEPT !.threw = TRUE]
  ELSE
    LET chunks ==
          IF isBinaryContent(content)
          THEN <<[id |-> chunkId(fileName, 0),
                  content |-> BinaryReferenceHead \o fileName \o BinaryReferenceTail,
                  metadata |-> [source |-> fileName, chunkIndex |-> 0,
                                totalChunks |-> 1]]>>
          ELSE documentChunks(fileName, textChunks(content))
    IN [documents |-> mapSet(store.documents, fileName, chunks),
        documentIndex |-> buildSimpleIndex(store.documentIndex, fileName, chunks),
        threw |-> FALSE]

removeDocument(store, fileName) ==
  IF mapHas(store.documents, fileName)
  THEN [store EXCEPT !.documents = mapDelete(@, fileName),
                     !.documentIndex = mapDelete(@, fileName)]
  ELSE store

\* The chunks of all sources in the order the search meets them.
RECURSIVE allChunks(_)
allChunks(docs) ==
  IF docs = <<>> THEN <<>> ELSE Head(docs).value \o allChunks(Tail(docs))

\* The number of query words (repeats counted) the chunk's text includes.
RECURSIVE score(_, _)
score(chunk, queryWords) ==
  IF queryWords = <<>> THEN 0
  ELSE (IF includesText(toLowerCase(chunk.content), Head(queryWords)) THEN 1 ELSE 0)
         + score(chunk, Tail(queryWords))

\* Mutant: the results are not sorted.
sortByScore_Unsorted(results, top) == results

\* results.sort((a, b) => b.score - a.score): stable, highest score first.
RECURSIVE sortByScore(_, _)
sortByScore(results, top) ==
  IF top = 0 THEN <<>>
  ELSE SelectSeq(results, LAMBDA r : r.score = top) \o sortByScore(results, top - 1)

searchDocuments(store, query, k) ==
  LET queryWords == wordsLongerThan(query, 2)
      chunks == allChunks(store.documents)
      scored == [i \in 1..Len(chunks) |->
                   [chunk |-> chunks[i], score |-> score(chunks[i], queryWords)]]
      results == SelectSeq(scored, LAMBDA r : r.score > 0)
      sorted == sortByScore(results, Len(queryWords))
      top == SubSeq(sorted, 1, Min(k, Len(sorted)))
  IN [i \in 1..Len(top) |-> top[i].chunk]

\* What callers hand to the store.  File names are texts too.
TextName ==
  <<"n",".","t","x","t">>

ImageName ==
  <<"p",".","p","n","g">>

FileNames == { TextName, ImageName }

PlainText ==
  <<"A","l","p","h","a"," ","b","e","t","a",","," ","g","a","m","m","a",
    ".">>

\* The head the upload hook puts before the text of a text file.
DocumentHead ==
  <<"D","O","C","U","M","E","N","T","_","F","I","L","E",":"," ","n",".",
    "t","x","t","\n","T","y","p","e",":"," ","t","e","x","t","/","p","l",
    "a","i","n","\n","S","i","z","e",":"," ","0",".","5","3"," ","K","B",
    "\n","C","o","n","t","e","n","t",":","\n">>

\* A text file as the upload hook wraps it; its text has words of 59
\* letters, a's in the first 300 characters and z's after them.
MarkedDocument ==
  DocumentHead \o [i \in 1..540 |-> IF i % 60 = 0 THEN " "
                                    ELSE IF i <= 300 THEN "a" ELSE "z"]

\* A PDF as the upload hook describes it: no line break after 'Content:'.
PdfDocument ==
  <<"D","O","C","U","M","E","N","T","_","F","I","L","E",":"," ","n",".",
    "t","x","t","\n","T","y","p","e",":"," ","a","p","p","l","i","c","a",
    "t","i","o","n","/","p","d","f","\n","S","i","z","e",":"," ","2",".",
    "0","0"," ","K","B","\n","C","o","n","t","e","n","t",":"," ","P","D",
    "F"," ","d","o","c","u","m","e","n","t"," ","u","p","l","o","a","d",
    "e","d",".">>

Base64Payload ==
  <<"d","a","t","a",":","i","m","a","g","e","/","p","n","g",";","b","a",
    "s","e","6","4",",","Q","U","J","D">>

\* An image as the upload hook writes it.
ImageContent ==
  <<"I","M","A","G","E","_","F","I","L","E",":"," ","p",".","p","n","g",
    "\n","T","y","p","e",":"," ","i","m","a","g","e","/","p","n","g","\n",
    "S","i","z","e",":"," ","0",".","0","1"," ","K","B","\n","B","a","s",
    "e","6","4",":"," ">>
  \o Base64Payload \o
  <<"\n","D","e","s","c","r","i","p","t","i","o","n",":"," ","U","s","e",
    "r"," ","u","p","l","o","a","d","e","d"," ","i","m","a","g","e"," ",
    "f","i","l","e"," ","t","h","a","t"," ","c","a","n"," ","b","e"," ",
    "a","n","a","l","y","z","e","d"," ","b","y"," ","v","i","s","i","o",
    "n","-","c","a","p","a","b","l","e"," ","m","o","d","e","l","s",".">>

BinaryInfo ==
  <<"B","I","N","A","R","Y","_","F","I","L","E",":"," ","p",".","p","n",
    "g"," ","(","v","i","d","e","o","/","m","p","4",")"," ","-"," ","S",
    "i","z","e",":"," ","1",".","0","0"," ","K","B"," ","-"," ","u","p",
    "l","o","a","d","e","d"," ","b","u","t"," ","n","o","t"," ","p","r",
    "o","c","e","s","s","e","d"," ","f","o","r"," ","t","e","x","t"," ",
    "s","e","a","r","c","h">>

NulData == <<"NUL", "a", "b", "c">>

ControlData == <<"BEL", "a", "b", "c">>

BlankText == <<" ", " ", "\n">>

OtherText ==
  <<"O","m","e","g","a"," ","z","z","z",";"," ","A","L","P","H","A"," ",
    "b","e","t","a"," ","a","l","p","h","a">>

StoreContents ==
  { PlainText, OtherText, MarkedDocument, PdfDocument, ImageContent, BinaryInfo,
    NulData, ControlData, BlankText, <<>> }

\* The store as a value.
Store == [documents |-> documents, documentIndex |-> documentIndex, threw |-> FALSE]

EmptyStore == [documents |-> <<>>, documentIndex |-> <<>>, threw |-> FALSE]

\* LangGraphChatAgent.uploadDocument and the upload hook hand a file to
\* processDocument; a throw leaves the store as it was.
ProcessDocumentOf(fileName, content) ==
  \E R \in {processDocument(Store, fileName, content)} :
    /\ documents' = R.documents
    /\ documentIndex' = R.documentIndex
    /\ HookUnchanged
    /\ UNCHANGED split

ProcessDocument ==
  \E fileName \in FileNames, content \in StoreContents :
    ProcessDocumentOf(fileName, content)

RemoveDocument ==
  \E fileName \in FileNames :
    \E R \in {removeDocument(Store, fileName)} :
      /\ documents' = R.documents
      /\ documentIndex' = R.documentIndex
      /\ HookUnchanged
      /\ UNCHANGED split

NextStore ==
  \/ ProcessDocument
  \/ RemoveDocument

SpecStore == Init /\ [][NextStore]_vars

\* ------------------------------------------- prompt contexts and uploads
endsWith(s, suffix) ==
  Len(suffix) <= Len(s) /\ SubSeq(s, Len(s) - Len(suffix) + 1, Len(s)) = suffix

\* /\.(jpg|jpeg|png|gif|webp|svg)$/
ImageExtensions ==
  { <<".","j","p","g">>, <<".","j","p","e","g">>, <<".","p","n","g">>, <<".","g","i","f">>, <<".","w","e","b","p">>, <<".","s","v","g">> }

isImageName(fileName) ==
  \E extension \in ImageExtensions : endsWith(toLowerCase(fileName), extension)

isDescribeAllImagesQuery(query) ==
  LET lowerQuery == toLowerCase(query)
  IN \/ includesText(lowerQuery, <<"d","e","s","c","r","i","b","e"," ","a","l","l"," ","i","m","a","g",
      "e","s">>)
     \/ includesText(lowerQuery, <<"d","e","s","c","r","i","b","e"," ","a","l","l"," ","t","h","e"," ",
      "i","m","a","g","e","s">>)
     \/ includesText(lowerQuery, <<"d","e","s","c","r","i","b","e"," ","a","l","l"," ","u","p","l","o",
      "a","d","e","d"," ","i","m","a","g","e","s">>)
     \/ includesText(lowerQuery, <<"d","e","s","c","r","i","b","e"," ","e","v","e","r","y"," ","i","m",
      "a","g","e">>)
     \/ /\ includesText(lowerQuery, <<"d","e","s","c","r","i","b","e">>)
        /\ includesText(lowerQuery, <<"i","m","a","g","e">>)
        /\ \/ includesText(lowerQuery, <<"a","l","l">>)
           \/ includesText(lowerQuery, <<"e","v","e","r","y">>)

getDocumentsForPrompt(S, promptId) ==
  IF contextIndex(S.promptContexts, promptId) = 0 THEN <<>>
  ELSE S.promptContexts[contextIndex(S.promptContexts, promptId)].documents

\* Mutant: the chunks found are not filtered by their source.
relevantForFile_Unfiltered(chunks, fileName) == chunks

\* chunks.filter(chunk => chunk.metadata.source === fileName)
relevantForFile(chunks, fileName) ==
  SelectSeq(chunks, LAMBDA chunk : chunk.metadata.source = fileName)

\* What getDocumentContext pushes to relevantChunks for the documents from
\* place i on: the content, with the source it comes from and whether it
\* is an image entry of the registry.
RECURSIVE relevantChunks(_, _, _, _, _)
relevantChunks(S, store, query, docs, i) ==
  IF i > Len(docs) THEN <<>>
  ELSE
    LET fileName == docs[i]
        found == relevantForFile(searchDocuments(store, query, 3), fileName)
        pushed ==
          IF isImageName(fileName)
          THEN IF mapHas(S.globalImageRegistry, fileName)
               THEN <<[content |-> mapGet(S.globalImageRegistry, fileName).content,
                       source |-> fileName, image |-> TRUE]>>
               ELSE <<>>
          ELSE [n \in 1..Len(found) |->
                  [content |-> found[n].content,
                   source |-> found[n].metadata.source, image |-> FALSE]]
    IN pushed \o relevantChunks(S, store, query, docs, i + 1)

NoImagesText ==
  <<"N","o"," ","i","m","a","g","e","s"," ","h","a","v","e"," ","b","e",
      "e","n"," ","u","p","l","o","a","d","e","d"," ","y","e","t",".">>

AllImagesHead ==
  <<"A","l","l"," ","u","p","l","o","a","d","e","d"," ","i","m","a","g",
      "e","s",":","\n">>

ContextHead ==
  <<"R","e","l","e","v","a","n","t"," ","c","o","n","t","e","x","t"," ",
      "f","r","o","m"," ","u","p","l","o","a","d","e","d"," ","d","o","c",
      "u","m","e","n","t","s",":","\n">>

ChunkSeparator ==
  <<"\n","\n","-","-","-","\n","\n">>

\* The text getDocumentContext resolves to.  A timestamp is printed as the
\* one atom of its value.
getDocumentContext(S, store, query, promptId) ==
  LET targetPromptId == IF promptId # Null THEN promptId ELSE S.currentPromptId
      images == S.globalImageRegistry
      imageDescriptions ==
        [n \in 1..Len(images) |->
           <<"I","m","a","g","e",":"," ">> \o images[n].value.fileName
             \o <<" ","(","u","p","l","o","a","d","e","d"," ">> \o <<images[n].value.timestamp>> \o <<")">>]
      documentNames == getDocumentsForPrompt(S, targetPromptId)
      chunks == relevantChunks(S, store, query, documentNames, 1)
  IN IF targetPromptId = Null THEN <<>>
     ELSE IF isDescribeAllImagesQuery(query)
     THEN IF images = <<>> THEN NoImagesText
          ELSE AllImagesHead \o joinWith(imageDescriptions, <<"\n">>)
     ELSE IF documentNames = <<>> \/ chunks = <<>> THEN <<>>
     ELSE ContextHead
            \o joinWith([n \in 1..Len(chunks) |-> chunks[n].content], ChunkSeparator)

\* The names handleFileUpload reads as text.
TextSuffixes ==
  { <<".","m","d">>, <<".","t","x","t">>, <<".","j","s">>, <<".","t","s">>, <<".","j","s","x">>, <<".","t","s","x">>, <<".","p","y">>,
    <<".","h","t","m","l">>, <<".","c","s","s">>, <<".","x","m","l">>, <<".","y","a","m","l">>, <<".","y","m","l">>, <<".","c","s","v">>, <<".","l","o","g">>,
    <<".","s","q","l">>, <<".","s","h">>, <<".","b","a","t">>, <<".","e","n","v">>, <<".","g","i","t","i","g","n","o","r","e">>, <<".","d","o","c","k","e","r","f","i","l","e">> }

isTextFile(file) ==
  \/ startsWith(file.type, <<"t","e","x","t","/">>)
  \/ file.type = <<"a","p","p","l","i","c","a","t","i","o","n","/","j","s","o","n">>
  \/ \E suffix \in TextSuffixes : endsWith(file.name, suffix)
  \/ includesText(toLowerCase(file.name), <<"r","e","a","d","m","e">>)

\* The content handleFileUpload hands on for a file [name, type, size,
\* text, data]: size is the size in KB as printed, text what file.text()
\* gives, data the data URL of the file.
uploadContent(file) ==
  IF isTextFile(file)
  THEN DocumentTag \o <<" ">> \o file.name
         \o <<"\n","T","y","p","e",":"," ">> \o (IF file.type = <<>> THEN <<"t","e","x","t","/","p","l","a","i","n">> ELSE file.type)
         \o <<"\n","S","i","z","e",":"," ">> \o file.size \o <<" ","K","B","\n","C","o","n","t","e","n","t",":","\n">> \o file.text
  ELSE IF startsWith(file.type, ImageTypePrefix)
  THEN ImageTag \o <<" ">> \o file.name
         \o <<"\n","T","y","p","e",":"," ">> \o file.type
         \o <<"\n","S","i","z","e",":"," ">> \o file.size \o <<" ","K","B","\n","B","a","s","e","6","4",":"," ">> \o file.data
         \o <<"\n","D","e","s","c","r","i","p","t","i","o","n",":"," ","U","s","e",
      "r"," ","u","p","l","o","a","d","e","d"," ","i","m","a","g","e"," ",
      "f","i","l","e"," ","t","h","a","t"," ","c","a","n"," ","b","e"," ",
      "a","n","a","l","y","z","e","d"," ","b","y"," ","v","i","s","i","o",
      "n","-","c","a","p","a","b","l","e"," ","m","o","d","e","l","s",".">>
  ELSE IF \/ startsWith(file.type, <<"a","u","d","i","o","/">>)
          \/ startsWith(file.type, <<"v","i","d","e","o","/">>)
          \/ file.type = <<"a","p","p","l","i","c","a","t","i","o","n","/",
                            "o","c","t","e","t","-","s","t","r","e","a","m">>
  THEN BinaryTag \o <<" ">> \o file.name \o <<" ","(">>
         \o (IF file.type = <<>> THEN <<"b","i","n","a","r","y">> ELSE file.type)
         \o <<")"," ","-"," ","S","i","z","e",":"," ">> \o file.size
         \o <<" ","K","B"," ","-"," ","u","p","l","o","a","d","e","d"," ","b","u",
      "t"," ","n","o","t"," ","p","r","o","c","e","s","s","e","d"," ","f",
      "o","r"," ","t","e","x","t"," ","s","e","a","r","c","h">>
  ELSE file.text

\* handleFileUpload for one file of the kinds above, from the point where
\* its content is read: processDocument, then addDocumentToCurrentPrompt.
\* A throw of processDocument is caught; the fallback entry is processed
\* and nothing is added to the prompt.
handleFileUpload(S, store, file) ==
  LET content == uploadContent(file)
      processed == processDocument(store, file.name, content)
      fallback == processDocument(store, file.name,
                    <<"F","i","l","e",":"," ">> \o file.name
                      \o <<" ","-"," ","u","p","l","o","a","d"," ","f","a","i","l","e","d"," ",
      "b","u","t"," ","f","i","l","e"," ","i","s"," ","a","v","a","i","l",
      "a","b","l","e">>)
  IN IF processed.threw
     THEN [hook |-> S, store |-> fallback]
     ELSE [hook |-> addDocumentToCurrentPrompt(
                      S, file.name, content,
                      ~isTextFile(file) /\ startsWith(file.type, ImageTypePrefix)),
           store |-> processed]

\* ------------------------------------------------------------ SpecContext
\* The session controller with file uploads: sends with files, uploads
\* between them, and the settling of the sends.
TextFile ==
  [name |-> TextName, type |-> <<"t","e","x","t","/","p","l","a","i","n">>, size |-> <<"0",".","0","2">>,
   text |-> PlainText, data |-> <<>>]

ImageFile ==
  [name |-> ImageName, type |-> <<"i","m","a","g","e","/","p","n","g">>, size |-> <<"0",".","0","1">>,
   text |-> <<>>, data |-> Base64Payload]

ClipFile ==
  [name |-> <<"c","l","i","p">>, type |-> <<"v","i","d","e","o","/","m","p","4">>, size |-> <<"1",".","0","0">>,
   text |-> <<>>, data |-> <<>>]

Files == { TextFile, ImageFile, ClipFile }

\* The file lists a send carries.
FileLists ==
  { <<>> } \cup { <<[name |-> f.name, type |-> f.type]>> : f \in Files }

\* What the sends of SpecContext pass as message text.
ContextContents ==
  { <<"a","l","p","h","a"," ","z","z","z">> }

\* Each file is uploaded once.
HandleFileUpload ==
  \E file \in Files :
    /\ ~mapHas(documents, file.name)
    /\ \E R \in {handleFileUpload(HookState, Store, file)} :
      /\ promptContexts' = R.hook.promptContexts
      /\ currentPromptId' = R.hook.currentPromptId
      /\ globalImageRegistry' = R.hook.globalImageRegistry
      /\ documents' = R.store.documents
      /\ documentIndex' = R.store.documentIndex
      /\ UNCHANGED <<chats, activeChat, isGenerating, currentAbortController,
                     turns, nextId, split, service, page>>

\* The page's handleSendMessage without web search: it returns while a
\* generation is running, and passes the uploaded files to sendMessage.
HandleSendMessage ==
  \E content \in ContextContents, files \in FileLists :
    /\ ~isGenerating
    /\ Len(turns) < MaxSends
    /\ HasChat(chats, activeChat) \/ Created < MaxChats
    /\ \A n \in 1..Len(files) : mapHas(documents, files[n].name)
    /\ Commit(sendMessage(HookState, Closure, content, "llama", <<>>, files))

NextContext ==
  \/ HandleFileUpload
  \/ HandleSendMessage
  \/ ContextResolved
  \/ StreamReturns

SpecContext == Init /\ [][NextContext]_vars

\* -------------------------------------------------------------- SpecSends
\* A long run of sends from the page, one after the other.
MaxPrompts == 51

SendPrompt ==
  \E content \in ContextContents :
    /\ ~isGenerating
    /\ Len(turns) < MaxPrompts
    /\ HasChat(chats, activeChat) \/ Created < MaxChats
    /\ Commit(sendMessage(HookState, Closure, content, "llama", <<>>, <<>>))

NextSends ==
  \/ SendPrompt
  \/ ContextResolved
  \/ StreamReturns

SpecSends == Init /\ [][NextSends]_vars

\* ------------------------------------------------------------ SpecCleanup
\* cleanupOldContexts on the contexts that n startNewPrompt calls leave.
\* The clock may tick between the calls ("ticking"), tick at every
\* other call ("stepped") or stand still ("frozen").
ContextCounts == 40..60

Clocks == { "ticking", "stepped", "frozen" }

clockAt(clock, i) ==
  IF clock = "ticking" THEN i
  ELSE IF clock = "stepped" THEN (i + 1) \div 2
  ELSE 1

Registries ==
  { <<>>,
    <<[key |-> ImageName,
       value |-> [fileName |-> ImageName, content |-> <<>>, timestamp |-> 1,
                  promptId |-> 1]]>> }

InitCleanup ==
  /\ chats = <<>>
  /\ activeChat = Null
  /\ isGenerating = FALSE
  /\ currentAbortController = Null
  /\ turns = <<>>
  /\ nextId = 1
  /\ InitStore
  /\ split = NotCalled
  /\ service = InitService
  /\ page = InitPage
  /\ \E n \in ContextCounts, clock \in Clocks :
       /\ promptContexts =
            [i \in 1..n |->
               [promptId |-> i,
                documents |-> IF i = 1 THEN <<ImageName>> ELSE <<>>,
                timestamp |-> clockAt(clock, i)]]
       /\ currentPromptId = n
  /\ globalImageRegistry \in Registries

CleanupOldContexts ==
  \E S \in {HookState} : Commit(cleanupOldContexts(S))

SpecCleanup == InitCleanup /\ [][CleanupOldContexts]_vars

\* -------------------------------------------------------------- SpecTitle
\* The first send of a session, for messages of up to MaxTitleWords words
\* with blanks before them and one or two blanks between them.
MaxTitleWords == 8

TitleWord(i) ==
  <<"one", "two", "three", "four", "five", "six", "seven", "eight", "nine",
    "ten", "eleven", "twelve">>[i]

\* The words i..n, each as one atom, with gap between neighbours.
RECURSIVE spacedWords(_, _, _)
spacedWords(i, n, gap) ==
  IF i > n THEN <<>>
  ELSE IF i = n THEN <<TitleWord(i)>>
  ELSE <<TitleWord(i)>> \o gap \o spacedWords(i + 1, n, gap)

TitleContents ==
  { lead \o spacedWords(1, n, gap) \o trail :
      n \in 1..MaxTitleWords,
      lead \in { <<>>, <<" ">> },
      gap \in { <<" ">>, <<" ", " ">>, <<" ", " ", " ">> },
      trail \in { <<>>, <<" ">> } }

SendFirstMessage ==
  \E content \in TitleContents, model \in { "llama", "qwen" } :
    /\ turns = <<>>
    /\ Commit(sendMessage(HookState, Closure, content, model, <<>>, <<>>))

NextTitle ==
  \/ SendFirstMessage
  \/ ContextResolved
  \/ StreamReturns

SpecTitle == Init /\ [][NextTitle]_vars

\* ------------------------------------------------------------- SpecStream
\* Sends that start from an initial response, and the chunks of their
\* generations, which here always succeed.
MaxStreamTurns == 2
MaxTokens == 3

\* What a caller passes as initialResponse (undefined is the empty text).
InitialResponses == { <<>>, <<"i">> }

StreamSend ==
  \E initialResponse \in InitialResponses :
    /\ Len(turns) < MaxStreamTurns
    /\ Commit(sendMessage(HookState, Closure, <<"a">>, "llama",
                          initialResponse, <<>>))

\* The generation client emits one more chunk of a turn.
StreamToken ==
  \E t \in 1..Len(turns), chunk \in Chunks :
    /\ turns[t].pc = "streaming"
    /\ Len(turns[t].response) < MaxTokens
    /\ Commit(onChunk([HookState EXCEPT !.turns[t].response = @ \o <<chunk>>],
                      t, <<chunk>>))

NextStream ==
  \/ StreamSend
  \/ ContextResolved
  \/ StreamToken
  \/ StopGeneration
  \/ StreamReturns

SpecStream == Init /\ [][NextStream]_vars

\* ------------------------------------------------------------ SpecService
\* The page's handleSendMessage in both modes, EnhancedChatService with its
\* conversation history, and edits of sent messages.  Generations succeed;
\* the agent's stream is delivered as one chunk.
MaxServiceTurns == 2
HistoryLimit == 20

\* What the model answers.
Responses == { <<"r">>, <<"s">> }

\* What webSearchTool.invoke returns.
SearchResults ==
  <<"r","e","s","u","l","t","s">>

\* The prompt of web search mode, of which the first sentence and the last
\* line are kept: the sentences between them hold none of the words that
\* executeToolIfNeeded looks for.
webPrompt(message) ==
  <<"[","I","N","S","T","R","U","C","T","I","O","N","S","]","\n","A","n",
    "s","w","e","r"," ","t","h","e"," ","q","u","e","r","y"," ","u","s",
    "i","n","g"," ","t","h","e"," ","p","r","o","v","i","d","e","d"," ",
    "s","e","a","r","c","h"," ","r","e","s","u","l","t","s",".","\n">>
    \o SearchResults
    \o <<"\n","Q","u","e","r","y",":"," ","\"">>
    \o message \o <<"\"">>

\* Which tool executeToolIfNeeded runs for a message in lower case: the web
\* search for one that asks to search and names the web, else the document
\* search for one that names documents.
toolFor(lowerMessage) ==
  LET has(word) == includesText(lowerMessage, word)
  IN IF /\ \/ has(<<"s","e","a","r","c","h">>)
           \/ has(<<"f","i","n","d">>)
           \/ has(<<"l","o","o","k"," ","u","p">>)
        /\ \/ has(<<"w","e","b">>)
           \/ has(<<"i","n","t","e","r","n","e","t">>)
           \/ has(<<"o","n","l","i","n","e">>)
     THEN "web"
     ELSE IF \/ has(<<"d","o","c","u","m","e","n","t">>)
             \/ has(<<"f","i","l","e">>)
             \/ has(<<"u","p","l","o","a","d","e","d">>)
     THEN "documents"
     ELSE "none"

executeToolIfNeeded(message) ==
  CHOOSE tool \in { toolFor(lowerMessage) :
                      lowerMessage \in {toLowerCase(message)} } : TRUE

\* What the agent passes to onChunk after a document search, without the
\* results.
ToolResultText ==
  <<"I"," ","s","e","a","r","c","h","e","d"," ","t","h","r","o","u","g",
    "h"," ","y","o","u","r"," ","d","o","c","u","m","e","n","t","s",":",
    "\n","\n">>

\* .slice(-n)
lastN(seq, n) ==
  IF Len(seq) <= n THEN seq ELSE SubSeq(seq, Len(seq) - n + 1, Len(seq))

historyOf(svc, sessionId) ==
  IF mapHas(svc.conversationHistory, sessionId)
  THEN mapGet(svc.conversationHistory, sessionId)
  ELSE <<>>

\* streamMessage up to its first wait: the history of the session is read,
\* and either the agent is given the web prompt, and searches the documents
\* when the prompt makes it, or runRag searches the documents.  turn is the
\* turn of the hook that made the call, 0 for the page.
streamMessageCalled(svc, message, sessionId, turn) ==
  CHOOSE called \in
    { [svc EXCEPT
         !.calls =
           Append(@, [sessionId |-> sessionId, message |-> message,
                      history |-> historyOf(svc, sessionId),
                      web |-> svc.useWebSearch, tool |-> tool, turn |-> turn,
                      response |-> <<>>, stored |-> <<>>, pc |-> "running"]),
         !.searches =
           IF ~svc.useWebSearch \/ tool = "documents"
           THEN Append(@, [by |-> "orchestrator", web |-> svc.useWebSearch,
                           turn |-> turn])
           ELSE @] :
        tool \in { IF svc.useWebSearch
                   THEN executeToolIfNeeded(webPrompt(message))
                   ELSE "none" } } : TRUE

\* streamMessage from the point where the model has answered: "Update
\* history".
streamMessageReturned(svc, c, response) ==
  LET updatedHistory ==
        lastN(svc.calls[c].history
                \o <<[role |-> "human", content |-> svc.calls[c].message],
                     [role |-> "ai", content |-> response]>>,
              HistoryLimit)
  IN [svc EXCEPT
        !.conversationHistory = mapSet(@, svc.calls[c].sessionId, updatedHistory),
        !.calls[c].response = response,
        !.calls[c].stored = updatedHistory,
        !.calls[c].pc = "done"]

\* The names for which getDocumentContext(query, promptId) calls
\* searchDocuments.
contextSearches(S, query, promptId) ==
  IF isDescribeAllImagesQuery(query) THEN <<>>
  ELSE SelectSeq(getDocumentsForPrompt(S, promptId),
                 LAMBDA fileName : ~isImageName(fileName))

\* sendMessage from its await of getDocumentContext to its call of
\* streamMessage, for the turn that S has just got: no event of the page
\* comes between them.  The result is the hook and the service.
contextResolved(S, svc, content, documentContext) ==
  LET t == Len(S.turns)
      enhancedMessage == IF documentContext # <<>>
                         THEN content \o <<"\n", "\n">> \o documentContext
                         ELSE content
      searched == contextSearches(S, content, S.turns[t].promptId)
      svc1 == [svc EXCEPT !.searches =
                 @ \o [n \in 1..Len(searched) |->
                         [by |-> "controller", web |-> svc.useWebSearch,
                          turn |-> t]]]
  IN [hook |-> [S EXCEPT !.turns[t].pc = "streaming"],
      service |-> streamMessageCalled(svc1, enhancedMessage, S.turns[t].chatId, t)]

streamStarted(S, svc, store, content) ==
  CHOOSE started \in
    { contextResolved(sent, svc, content, documentContext) :
        <<sent, documentContext>> \in
          { <<hook, getDocumentContext(hook, store, content,
                                       hook.turns[Len(hook.turns)].promptId)>> :
              hook \in {S} } } : TRUE

\* The files of SpecService, and the file lists its sends carry.
ServiceFiles == { TextFile, ImageFile }

ServiceFileLists ==
  { <<>> } \cup { <<[name |-> f.name, type |-> f.type]>> : f \in ServiceFiles }

\* handleFileUpload, once for each file.
UploadFile ==
  \E file \in ServiceFiles :
    /\ ~mapHas(documents, file.name)
    /\ \E R \in {handleFileUpload(HookState, Store, file)} :
         /\ CommitHook(R.hook)
         /\ documents' = R.store.documents
         /\ documentIndex' = R.store.documentIndex
         /\ UNCHANGED <<split, service, page>>

\* The hook and the service become those of R.
CommitService(R) ==
  /\ CommitHook(R.hook)
  /\ service' = R.service
  /\ UNCHANGED <<split, documents, documentIndex>>

\* handleSendMessage: nothing happens while a generation is running; with
\* web search selected the service is asked first, otherwise sendMessage is
\* called at once.  The files are those uploaded before.
PageSendMessage ==
  \E content \in ContextContents, files \in ServiceFileLists, web \in BOOLEAN :
    /\ page.pc = "idle"
    /\ ~isGenerating
    /\ Len(turns) < MaxServiceTurns
    /\ \A n \in 1..Len(files) : mapHas(documents, files[n].name)
    /\ IF web
       THEN \* the session id is activeChat ?? 'default'; Null stands for
            \* 'default'
            /\ service' = streamMessageCalled(
                            [service EXCEPT !.useWebSearch = TRUE],
                            content, activeChat, 0)
            /\ page' = [pc |-> "searching", prompt |-> content,
                        files |-> files, call |-> Len(service.calls) + 1,
                        turn |-> 0, cl |-> Closure]
            /\ UNCHANGED <<chats, activeChat, isGenerating,
                           currentAbortController, turns, promptContexts,
                           currentPromptId, nextId, globalImageRegistry,
                           split, documents, documentIndex>>
       ELSE /\ \E R \in {streamStarted(
                            sendMessage(HookState, Closure, content, "llama",
                                        <<>>, files),
                            [service EXCEPT !.useWebSearch = FALSE],
                            Store, content)} :
                 CommitService(R)
            /\ UNCHANGED page

\* The call of the page returns: its pair goes into the history, and
\* sendMessage is called with the response as initial response, web search
\* still being enabled.
WebSearchReturns ==
  \E response \in Responses :
    /\ page.pc = "searching"
    /\ \E R \in {streamStarted(
                    sendMessage(HookState, page.cl, page.prompt, "llama",
                                response, page.files),
                    streamMessageReturned(service, page.call, response),
                    Store, page.prompt)} :
         /\ CommitHook(R.hook)
         /\ service' = [R.service EXCEPT !.calls[page.call].turn = Len(R.hook.turns)]
         /\ page' = [page EXCEPT !.pc = "sending", !.turn = Len(R.hook.turns)]
         /\ UNCHANGED <<split, documents, documentIndex>>

\* The call of a turn returns: the agent's tool result and the answer go
\* to the chunk callback, the pair goes into the history, and sendMessage
\* completes; the page handler that awaited it disables web search.
StreamCompletes ==
  \E c \in 1..Len(service.calls), response \in Responses :
    /\ service.calls[c].pc = "running"
    /\ service.calls[c].turn # 0
    /\ LET t == service.calls[c].turn
           S1 == IF service.calls[c].tool = "documents"
                 THEN onChunk(HookState, t, ToolResultText)
                 ELSE HookState
           svc == streamMessageReturned(service, c, response)
           awaited == page.pc = "sending" /\ page.turn = t
       IN /\ CommitHook(afterStream(onChunk(S1, t, response), t, response))
          /\ service' = IF awaited THEN [svc EXCEPT !.useWebSearch = FALSE]
                        ELSE svc
          /\ page' = IF awaited THEN InitPage ELSE page
          /\ UNCHANGED <<split, documents, documentIndex>>

\* What an edit puts in place of a message.
EditedContents ==
  { <<"b","e","t","a">> }

\* handleEditMessage: editAndResendMessage with the selected model, while
\* no handleSendMessage is waiting.
HandleEditMessage ==
  \E messageId \in MessageIds, newContent \in EditedContents :
    /\ page.pc = "idle"
    /\ Len(turns) < MaxServiceTurns
    /\ \E S \in {editAndResendMessage(HookState, Closure, messageId,
                                       newContent, "llama")} :
         /\ Len(S.turns) > Len(turns)
         /\ CommitService(streamStarted(S, service, Store, newContent))
    /\ UNCHANGED page

NextService ==
  \/ UploadFile
  \/ PageSendMessage
  \/ WebSearchReturns
  \/ StreamCompletes
  \/ HandleEditMessage

SpecService == Init /\ [][NextService]_vars

\* ------------------------------------------------------------------ claims
Turns == 1..Len(turns)

Settled(trn) == trn.pc \in {"completed", "errored"}

\* The placeholder assistant message of a turn, as far as it is still in
\* the message list of the turn's chat (a set of at most one message).
Placeholder(chs, trn) ==
  { chs[i].messages[j] :
      <<i, j>> \in { p \in (1..Len(chs)) \X (1..(2 * MaxTurns + 2)) :
                       /\ chs[p[1]].id = trn.chatId
                       /\ p[2] <= Len(chs[p[1]].messages)
                       /\ chs[p[1]].messages[p[2]].id = trn.assistantMessage } }

\* The step delivers something of turn t's generation to the hook: a chunk
\* to the token callback, or the return of streamMessage.
Delivery(t) ==
  /\ turns[t].pc = "streaming"
  /\ \/ turns'[t].response # turns[t].response
     \/ Settled(turns'[t])

\* C1: when turn b was started while turn a was in flight, no chunk and no
\* final response delivered for a changes b's placeholder message (its
\* content and its streaming flag).
C1_OldTurnNeverMutatesNewPlaceholder ==
  [][\A a \in Turns, b \in Turns :
       (a \in turns[b].concurrent /\ Delivery(a))
         => Placeholder(chats', turns[b]) = Placeholder(chats, turns[b])]_vars

\* Turn a has settled after turn b of the same chat was started, and b's
\* placeholder is still streaming.
C1_Witness ==
  \E a \in Turns, b \in Turns :
    /\ a \in turns[b].concurrent
    /\ turns[a].chatId = turns[b].chatId
    /\ Settled(turns[a])
    /\ turns[a].response # <<>>
    /\ ~Settled(turns[b])
    /\ \E m \in Placeholder(chats, turns[b]) : m.isStreaming

\* The handles that are active: created, not aborted, generation not settled.
ActiveHandles == { t \in Turns : ~Settled(turns[t]) /\ ~turns[t].aborted }

\* C2: at most one generation handle is active, and whenever a generation
\* was started, the handle of every generation in flight at that moment was
\* aborted.
C2_SingleActiveHandle ==
  /\ Cardinality(ActiveHandles) <= 1
  /\ \A b \in Turns : \A a \in turns[b].concurrent : turns[a].aborted

\* C3: once a turn's handle is aborted, the content of its placeholder
\* message never changes again.
C3_NoWriteAfterStop ==
  [][\A t \in Turns :
       turns[t].aborted =>
         \A m \in Placeholder(chats, turns[t]) :
           \A n \in Placeholder(chats', turns[t]) : n.content = m.content]_vars

\* C4: a turn whose handle has been aborted and whose generation call has
\* not settled yet has a placeholder with streaming = false.
C4_StopClearsStreamingFlag ==
  \A t \in Turns :
    (turns[t].aborted /\ ~Settled(turns[t]))
      => \A m \in Placeholder(chats, turns[t]) : ~m.isStreaming

\* C5: the placeholder of a turn, while it is in a message list, is
\* streaming exactly as long as the turn's generation call has not settled.
C5_StreamingUntilSettled ==
  \A t \in Turns :
    \A m \in Placeholder(chats, turns[t]) : m.isStreaming = ~Settled(turns[t])

\* A stopped turn whose generation failed afterwards; its placeholder is
\* still in the list.
C5_Witness ==
  \E t \in Turns :
    /\ turns[t].aborted
    /\ turns[t].pc = "errored"
    /\ Placeholder(chats, turns[t]) # {}
\* What a caller may pass as edited text.
EditContents == { <<"b">>, <<" ", "c", " ", "d", " ">>, <<" ">> }

ActiveMessages == FindChat(chats, activeChat).messages

C7_InvalidOperationsChangeNothing ==
  /\ \A messageId \in MessageIds, newContent \in EditContents, model \in Models :
       (\/ ~HasChat(chats, activeChat)
        \/ findIndex(ActiveMessages, messageId) = 0
        \/ ActiveMessages[findIndex(ActiveMessages, messageId)].role # "user")
         => editAndResendMessage(HookState, Closure, messageId, newContent, model)
              = HookState
  /\ \A model \in Models :
       (\/ ~HasChat(chats, activeChat)
        \/ Len(ActiveMessages) < 2
        \/ ActiveMessages[Len(ActiveMessages) - 1].role # "user")
         => regenerateLastMessage(HookState, Closure, model) = HookState

\* A generation is in flight with its handle installed, and the active chat
\* ends with an assistant message followed by a user message: regenerate is
\* invalid, and so is an edit of the assistant message.
C7_Witness ==
  /\ HasChat(chats, activeChat)
  /\ currentAbortController # Null
  /\ isGenerating
  /\ Len(ActiveMessages) >= 2
  /\ ActiveMessages[Len(ActiveMessages) - 1].role = "assistant"
  /\ ActiveMessages[Len(ActiveMessages)].role = "user"

TitleOf(chs, chatId) == FindChat(chs, chatId).title

SurvivingChats == ChatIds(chats) \cap ChatIds(chats')

\* The step is updateChatTitle on the chat.
Retitled(chatId) ==
  \E title \in Titles : Commit(updateChatTitle(HookState, chatId, title))

\* The step is a send that found the chat's message list empty: the list is
\* now the pair of the newest turn, and the title is derived from its text.
SentOnEmptyList(chatId) ==
  /\ Len(turns') > Len(turns)
  /\ LET newest == turns'[Len(turns')]
         after == FindChat(chats', chatId).messages
     IN /\ newest.chatId = chatId
        /\ Len(after) = 2
        /\ after[1].id = newest.userMessage
        /\ after[2].id = newest.assistantMessage
        /\ TitleOf(chats', chatId) = generateTitle(after[1].content)

\* A turn has been sent to the chat: it has had its first user message.
HadFirstMessage(chatId) == \E t \in Turns : turns[t].chatId = chatId

\* C8 as claimed: once a chat has had its first user message, only
\* updateChatTitle changes its title.
C8_TitleFixedByFirstMessage ==
  [][\A chatId \in SurvivingChats :
       (HadFirstMessage(chatId) /\ TitleOf(chats', chatId) # TitleOf(chats, chatId))
         => Retitled(chatId)]_vars

\* C8 amended: a chat's title changes only by updateChatTitle or by a send
\* that finds the chat's message list empty (the first message, the first
\* send after clearChat, an edit of the first message); a send onto a
\* non-empty list leaves the title alone.
C8_TitleChangesOnlyOnEmptyList ==
  [][\A chatId \in SurvivingChats :
       TitleOf(chats', chatId) # TitleOf(chats, chatId)
         => (Retitled(chatId) \/ SentOnEmptyList(chatId))]_vars

\* A chat that was renamed is on its second turn at least, with further
\* messages appended to a non-empty list, and still carries the given name.
C8_Witness ==
  \E i \in 1..Len(chats) :
    /\ chats[i].title \in Titles
    /\ Len(chats[i].messages) >= 4
    /\ Cardinality({ t \in Turns : turns[t].chatId = chats[i].id }) >= 2

\* C9: when the generation client fails, the catch block has run (the turn
\* is errored, nothing is thrown on), the placeholder holds the apology with
\* streaming = false, and the generating flag and the handle are cleared;
\* the placeholder of an errored turn keeps the apology for as long as it is
\* in the list.
C9_FailureEndsInApology ==
  [][/\ \A t \in Turns :
          (\E kind \in FailureKinds : StreamFailsFor(t, kind))
            => /\ turns'[t].pc = "errored"
               /\ \A m \in Placeholder(chats', turns[t]) :
                    m.content = ApologyText /\ ~m.isStreaming
               /\ ~isGenerating'
               /\ currentAbortController' = Null
     /\ \A e \in Turns :
          turns[e].pc = "errored"
            => \A m \in Placeholder(chats', turns[e]) :
                 m.content = ApologyText /\ ~m.isStreaming]_vars

\* A turn whose generation client failed while another turn's handle was
\* installed; its placeholder is still in the list.
C9_Witness ==
  \E t \in Turns :
    /\ turns[t].pc = "errored"
    /\ ~Includes(turns[t].response, "Error") \/ turns[t].fullResponse = <<>>
    /\ \E b \in Turns : b > t /\ t \in turns[b].concurrent
    /\ Placeholder(chats, turns[t]) # {}
SplitReturned == split.pc = "returned"

\* Every character that is not whitespace lies inside an emitted chunk.
Covered ==
  \A p \in 0 .. (split.text.length - 1) :
    ~isBlankAt(split.text, p)
      => \E i \in 1..Len(split.chunks) :
           split.chunks[i].from <= p /\ p < split.chunks[i].to

\* C10: with the chunk size clamped to 100..5000 and the overlap to at most
\* half of it, splitText returns, and when it has returned every position of
\* the text that is not whitespace lies inside an emitted chunk (the windows
\* leave no gap; only whitespace is trimmed away).
C10_SplitTerminatesAndCovers ==
  /\ <>SplitReturned
  /\ [](SplitReturned => Covered)

\* The windows of a slide of chunkSize advanced by chunkSize - chunkOverlap
\* (in halves of a position) from offset 0 until a window reaches the end.
RECURSIVE SlidingWindows(_, _)
SlidingWindows(s, j) ==
  LET stride == 2 * s.chunkSize - s.chunkOverlap
      end == Min(j * stride + 2 * s.chunkSize, 2 * s.text.length)
      window == trim(s.text, slice(s.text.length, j * stride, end))
      kept == IF window.to > window.from THEN <<window>> ELSE <<>>
  IN IF end >= 2 * s.text.length THEN kept
     ELSE kept \o SlidingWindows(s, j + 1)

\* C11: when splitText has returned on a non-empty text, the chunks are
\* exactly the trimmed non-empty windows of the slide (window j at offset
\* j * (chunkSize - chunkOverlap)), none of them twice, and the loop was left
\* with the step count below its maximum.
C11_SlidingWindowExact ==
  (SplitReturned /\ split.text.length > 0)
    => /\ split.chunks = SlidingWindows(split, 0)
       /\ split.iterations < split.maxIterations

\* A returned call on a padded text longer than the chunk size, with an
\* overlap, that emitted several chunks, the first of them trimmed.
C10_Witness ==
  /\ SplitReturned
  /\ split.text.layout = "padded"
  /\ split.text.length > split.chunkSize
  /\ split.chunkOverlap > 0
  /\ Len(split.chunks) >= 3
  /\ split.chunks[1].from >= Margin
\* One entry per key: what a Map guarantees.
OneEntryPerKey(entries) ==
  \A i, j \in 1..Len(entries) : entries[i].key = entries[j].key => i = j

\* after is the store processDocument(fileName, ...) leaves, fresh what the
\* same call leaves of an empty store: the entries of fileName are the fresh
\* ones, once, and every other source's entries are those of the store.
Replaced(after, fresh, fileName) ==
  /\ ~after.threw
  /\ OneEntryPerKey(after.documents)
  /\ OneEntryPerKey(after.documentIndex)
  /\ mapGet(after.documents, fileName) = mapGet(fresh.documents, fileName)
  /\ mapHas(after.documentIndex, fileName)
  /\ mapGet(after.documentIndex, fileName)
       = mapGet(fresh.documentIndex, fileName)
  /\ \A other \in FileNames \ {fileName} :
       /\ mapHas(after.documents, other) <=> mapHas(documents, other)
       /\ mapHas(after.documentIndex, other) <=> mapHas(documentIndex, other)
       /\ mapHas(documents, other)
            => mapGet(after.documents, other) = mapGet(documents, other)
       /\ mapHas(documentIndex, other)
            => mapGet(after.documentIndex, other) = mapGet(documentIndex, other)

\* C12: processDocument(s, Y) with content Y on a store that already holds
\* source s leaves for s exactly the chunks and keywords derived from Y
\* (what processing Y into an empty store gives), as the only entry for s,
\* and leaves every other source's chunks and keywords as they were.
C12_ReingestReplaces ==
  \A fileName \in FileNames, content \in StoreContents \ {<<>>} :
    mapHas(documents, fileName)
      => \A after \in {processDocument(Store, fileName, content)},
            fresh \in {processDocument(EmptyStore, fileName, content)} :
           Replaced(after, fresh, fileName)

\* Two sources are stored, the older of them with several chunks and
\* keywords: a second processDocument on it has a list to replace.
C12_Witness ==
  /\ Len(documents) = 2
  /\ Len(documents[1].value) > 1
  /\ mapHas(documentIndex, documents[1].key)
  /\ mapGet(documentIndex, documents[1].key) # <<>>

\* C13: for every source in the store the chunk at place i (from 0) has
\* chunkIndex i, so the indices are exactly 0..n-1 without repeats; its
\* totalChunks is the number n of chunks stored for the source, its source
\* is the source, and its id is '{source}-chunk-{chunkIndex}'.
C13_ChunkIndicesAndIds ==
  \A d \in 1..Len(documents) :
    LET source == documents[d].key
        chunks == documents[d].value
    IN \A i \in 1..Len(chunks) :
         /\ chunks[i].metadata.chunkIndex = i - 1
         /\ chunks[i].metadata.totalChunks = Len(chunks)
         /\ chunks[i].metadata.source = source
         /\ chunks[i].id = <<source, "-chunk-", chunks[i].metadata.chunkIndex>>

\* A source with several chunks next to a source with a single one.
C13_Witness ==
  /\ \E d \in 1..Len(documents) : Len(documents[d].value) > 2
  /\ \E d \in 1..Len(documents) : Len(documents[d].value) = 1

Queries ==
  { <<"A","l","p","h","a",","," ","a","a","a"," ","z","z","z","!">>,
    <<"z","z"," ","a"," ","b","e">>,
    <<"B","i","n","a","r","y"," ","a","a","a"," ","z","z","z">>,
    <<>> }

ResultLimits == { 0, 1, 3 }

\* The place of a chunk in the order the search meets the chunks.
EncounterPlace(chunk) ==
  CHOOSE i \in 1..Len(allChunks(documents)) : allChunks(documents)[i].id = chunk.id

\* The query tokens: lower-cased words of the query longer than 2.
QueryTokens(query) == Range(wordsLongerThan(query, 2))

\* The number of query words a chunk's lower-cased text contains.
ScoreOf(chunk, query) ==
  Cardinality({ n \in 1..Len(wordsLongerThan(query, 2)) :
                  includesText(toLowerCase(chunk.content),
                               wordsLongerThan(query, 2)[n]) })

\* found holds at most k stored chunks, each containing a token of the
\* query, in the order of falling score and, at equal score, of encounter.
BoundedAndOrdered(found, query, k) ==
  /\ Len(found) <= k
  /\ \A i \in 1..Len(found) :
       /\ \E n \in 1..Len(allChunks(documents)) :
            allChunks(documents)[n] = found[i]
       /\ \E token \in QueryTokens(query) :
            includesText(toLowerCase(found[i].content), token)
       /\ ScoreOf(found[i], query) > 0
  /\ \A i \in 1..(Len(found) - 1) :
       \/ ScoreOf(found[i], query) > ScoreOf(found[i + 1], query)
       \/ /\ ScoreOf(found[i], query) = ScoreOf(found[i + 1], query)
          /\ EncounterPlace(found[i]) < EncounterPlace(found[i + 1])

\* C14: searchDocuments(query, k) returns at most k chunks, all of them
\* stored chunks whose lower-cased text contains a query token longer than 2
\* (none scores 0), in the order of non-increasing score, chunks of equal
\* score in the order the search met them.
C14_SearchBoundedAndOrdered ==
  \A query \in Queries, k \in ResultLimits :
    \A found \in {searchDocuments(Store, query, k)} :
      BoundedAndOrdered(found, query, k)

\* A search that meets a low-scoring chunk before a higher-scoring one and
\* has more matches than it may return.
C14_Witness ==
  \E query \in Queries, k \in ResultLimits :
    LET found == searchDocuments(Store, query, k)
        all == searchDocuments(Store, query, Len(allChunks(documents)))
    IN /\ Len(found) = k /\ k >= 3
       /\ Len(all) > k
       /\ EncounterPlace(found[1]) > 1
       /\ ScoreOf(found[1], query) > ScoreOf(allChunks(documents)[1], query)
       /\ ScoreOf(allChunks(documents)[1], query) > 0

\* C15: processDocument on content tagged IMAGE_FILE stores exactly one
\* chunk for the source, and the chunk's content does not contain the
\* Base64 payload of the image.
C15_ImageChunkWithoutPayload ==
  \A fileName \in FileNames, content \in StoreContents :
    startsWith(content, ImageTag)
      => LET chunks == mapGet(processDocument(Store, fileName, content).documents,
                              fileName)
         IN /\ Len(chunks) = 1
            /\ ~includesText(chunks[1].content, Base64Payload)
SendCompleted(promptId) ==
  \E t \in 1..Len(turns) :
    turns[t].promptId = promptId /\ turns[t].pc \in {"completed", "errored"}

\* C17: every send has its prompt context, and no step changes the source
\* list of a context whose send has completed.
C17_CompletedContextFrozen ==
  [][/\ \A t \in 1..Len(turns') :
          contextIndex(promptContexts', turns'[t].promptId) # 0
     /\ \A i \in 1..Len(promptContexts) :
          SendCompleted(promptContexts[i].promptId)
            => /\ i <= Len(promptContexts')
               /\ promptContexts'[i].documents = promptContexts[i].documents]_vars

ContextQueries ==
  { <<"u","p","l","o","a","d","e","d"," ","A","l","p","h","a">>,
    <<"g","a","m","m","a">>,
    <<"D","e","s","c","r","i","b","e"," ","a","l","l"," ","i","m","a","g",
      "e","s">> }

\* A piece of text that only the content of the file holds.
SourceMarker(file) ==
  IF file.name = TextName THEN <<"g","a","m","m","a">>
  ELSE IF file.name = ImageName THEN Base64Payload
  ELSE BinaryTag

\* The chunks are those of sources among attached, and text holds nothing
\* of a file that is not attached.
OnlyAttached(chunks, text, attached) ==
  /\ \A n \in 1..Len(chunks) :
       ~chunks[n].image => chunks[n].source \in attached
  /\ \A file \in Files :
       file.name \notin attached => ~includesText(text, SourceMarker(file))

\* C20: for a query that does not ask to describe all images and a prompt
\* of the manager, every chunk of the store that getDocumentContext(query,
\* promptId) puts into its text has a source attached to the prompt, and
\* the text holds nothing of a file that is not attached to it.
C20_ContextOnlyFromAttachedSources ==
  \A query \in ContextQueries, i \in 1..Len(promptContexts) :
    ~isDescribeAllImagesQuery(query)
      => \A names \in {getDocumentsForPrompt(HookState, promptContexts[i].promptId)} :
           \A chunks \in {relevantChunks(HookState, Store, query, names, 1)},
              text \in {getDocumentContext(HookState, Store, query,
                                           promptContexts[i].promptId)} :
             OnlyAttached(chunks, text, Range(names))

\* A prompt gets chunks of its own source while the search also finds a
\* chunk of a source that is attached to another prompt only.
C20_Witness ==
  \E query \in ContextQueries, i, j \in 1..Len(promptContexts) :
    /\ ~isDescribeAllImagesQuery(query)
    /\ \E n \in 1..Len(searchDocuments(Store, query, 3)) :
         /\ searchDocuments(Store, query, 3)[n].metadata.source
              \notin Range(promptContexts[i].documents)
         /\ searchDocuments(Store, query, 3)[n].metadata.source
              \in Range(promptContexts[j].documents)
    /\ getDocumentContext(HookState, Store, query, promptContexts[i].promptId) # <<>>
    /\ \E n \in 1..Len(promptContexts[i].documents) :
         ~isImageName(promptContexts[i].documents[n])
\* C18: the manager holds at most 50 prompt contexts, and they are the
\* most recently created ones (those of the last sends).
C18_AtMostFiftyContexts ==
  /\ Len(promptContexts) <= MaxContexts
  /\ \A i \in 1..Len(promptContexts) :
       promptContexts[i].promptId > Len(turns) - MaxContexts

\* The contexts kept are contexts of before, in their order.
RECURSIVE IsSubSeq(_, _)
IsSubSeq(kept, all) ==
  IF kept = <<>> THEN TRUE
  ELSE IF all = <<>> THEN FALSE
  ELSE IF Head(kept) = Head(all) THEN IsSubSeq(Tail(kept), Tail(all))
  ELSE IsSubSeq(kept, Tail(all))

\* C19: cleanupOldContexts on n contexts leaves min(n, 50) of them, as
\* they were; every context it removes has a timestamp that is not newer
\* than that of any context it keeps; the image registry is unchanged.
C19_CleanupKeepsNewestFifty ==
  [][CleanupOldContexts =>
       /\ Len(promptContexts') = Min(Len(promptContexts), MaxContexts)
       /\ IsSubSeq(promptContexts', promptContexts)
       /\ \A i \in 1..Len(promptContexts), j \in 1..Len(promptContexts') :
            contextIndex(promptContexts', promptContexts[i].promptId) = 0
              => promptContexts[i].timestamp <= promptContexts'[j].timestamp
       /\ globalImageRegistry' = globalImageRegistry]_vars

\* cleanupOldContexts has removed contexts, the one the image of the
\* registry was uploaded with among them; the registry still holds it.
C19_Witness ==
  /\ Len(promptContexts) = MaxContexts
  /\ promptContexts[1].promptId > 1
  /\ promptContexts[1].timestamp = promptContexts[MaxContexts].timestamp
  /\ globalImageRegistry # <<>>
\* The words of a text: its pieces between blanks that are not empty.
WordsOf(text) == SelectSeq(SplitBlank(text, <<>>), LAMBDA word : word # <<>>)

\* C22: the title of a session with a first user message is the first six
\* words of that message joined by blanks, followed by '...' exactly when
\* the message has more than six words.
C22_TitleIsFirstSixWords ==
  \A c \in 1..Len(chats) :
    chats[c].messages # <<>>
      => LET words == WordsOf(chats[c].messages[1].content)
             first == SubSeq(words, 1, Min(Len(words), TitleWords))
         IN chats[c].title
              = JoinBlank(first)
                  \o (IF Len(words) > TitleWords THEN <<"...">> ELSE <<>>)

\* regenerateLastMessage has something to do in the active chat.
RegenerateValid ==
  /\ HasChat(chats, activeChat)
  /\ Len(ActiveMessages) >= 2
  /\ ActiveMessages[Len(ActiveMessages) - 1].role = "user"

\* C24: a valid regenerateLastMessage, with any model, leaves every message
\* before the last one as it was, drops the last one, and appends what a
\* send of the second-to-last message's content appends: a new user message
\* with that content and a new assistant placeholder, empty and streaming,
\* at the end of the list.
C24_RegenerateDropsLastThenSends ==
  \A model \in Models :
    RegenerateValid =>
      LET n == Len(ActiveMessages)
          R == regenerateLastMessage(HookState, Closure, model)
          after == FindChat(R.chats, activeChat).messages
      IN /\ SubSeq(after, 1, n - 1) = SubSeq(ActiveMessages, 1, n - 1)
         /\ ActiveMessages[n].id \notin { after[j].id : j \in 1..Len(after) }
         /\ Len(after) = n + 1
         /\ after[n].role = "user"
         /\ after[n].content = ActiveMessages[n - 1].content
         /\ after[n + 1].role = "assistant"
         /\ after[n + 1].isStreaming
         /\ after[n + 1].content = <<>>
         /\ after[n + 1].id \notin MessageIds
         /\ R.turns[Len(R.turns)].assistantMessage = after[n + 1].id

\* Every message of the list at an odd place is a user message and every
\* one at an even place an assistant message.
Alternates(messages) ==
  \A j \in 1..Len(messages) :
    messages[j].role = (IF j % 2 = 1 THEN "user" ELSE "assistant")

\* C25: a valid regenerateLastMessage leaves the number of messages of the
\* active chat unchanged, the content of the regenerated user message is in
\* the list once, directly before the new placeholder, and the messages of
\* every chat alternate user, assistant.
C25_RegenerateKeepsCountAndAlternation ==
  /\ \A c \in 1..Len(chats) : Alternates(chats[c].messages)
  /\ \A model \in Models :
       RegenerateValid =>
         LET n == Len(ActiveMessages)
             R == regenerateLastMessage(HookState, Closure, model)
             after == FindChat(R.chats, activeChat).messages
         IN /\ Len(after) = n
            /\ after[Len(after) - 1].role = "user"
            /\ after[Len(after) - 1].content = ActiveMessages[n - 1].content
            /\ Cardinality({ j \in 1..Len(after) :
                               /\ after[j].role = "user"
                               /\ after[j].content
                                    = ActiveMessages[n - 1].content }) = 1

\* C26: when turn b was started while turn a was in flight, the step in
\* which a's generation call settles leaves the generating flag and the
\* installed handle as they were, as long as b has not settled and has not
\* been cancelled.
C26_OldSettlementKeepsNewHandle ==
  [][\A a \in Turns, b \in Turns :
       (/\ a \in turns[b].concurrent
        /\ ~Settled(turns[a])
        /\ Settled(turns'[a])
        /\ ~Settled(turns[b])
        /\ ~turns[b].aborted)
         => /\ isGenerating' = isGenerating
            /\ currentAbortController' = currentAbortController]_vars

\* The sends that attached the image file and are waiting for their
\* document context.
ImageSends ==
  { t \in Turns :
      /\ turns[t].pc = "context"
      /\ ImageName \in Range(getDocumentsForPrompt(HookState, turns[t].promptId)) }

\* C28: once the image file has been uploaded, and while a send that
\* attached it is getting its document context, the image registry holds
\* under the file's name the content the upload stored, and the context
\* text of the send contains that content.
C28_AttachedImageContentSurvivesSend ==
  \A t \in ImageSends, query \in ContextContents :
    mapHas(documents, ImageName)
      => /\ mapHas(globalImageRegistry, ImageName)
         /\ mapGet(globalImageRegistry, ImageName).content
              = uploadContent(ImageFile)
         /\ includesText(getDocumentContext(HookState, Store, query,
                                            turns[t].promptId),
                         uploadContent(ImageFile))

C27_SuccessNeverEndsInApology ==
  \A t \in Turns :
    /\ turns[t].pc # "errored"
    /\ (/\ Settled(turns[t])
        /\ ~turns[t].aborted
        /\ turns[t].response # NoResponseText)
         => \A m \in Placeholder(chats, turns[t]) :
              \E initialResponse \in InitialResponses :
                m.content = initialResponse \o turns[t].response

\* C21: no query of the keyword index, by the hook's getDocumentContext or
\* by the chat service and its agent, is made while web search is enabled
\* for the turn.
C21_NoDocumentSearchInWebMode ==
  \A n \in 1..Len(service.searches) : ~service.searches[n].web

\* The calls of streamMessage made for turn t.
CallsOf(t) == { c \in 1..Len(service.calls) : service.calls[c].turn = t }

\* C29: the history that streamMessage reads for a turn of the hook holds
\* only user texts of messages that are in the turn's chat before the
\* turn's own user message: each human entry starts with the content of
\* such a message, as long as the turn's user message is in the list.
C29_HistoryHoldsOnlyListedMessages ==
  \A t \in Turns : \A c \in CallsOf(t) :
    LET messages == FindChat(chats, turns[t].chatId).messages
        own == findIndex(messages, turns[t].userMessage)
        history == service.calls[c].history
    IN (HasChat(chats, turns[t].chatId) /\ own # 0)
         => \A n \in 1..Len(history) :
              history[n].role = "human"
                => \E j \in 1..(own - 1) :
                     /\ messages[j].role = "user"
                     /\ startsWith(history[n].content, messages[j].content)

\* C30: for a turn that has completed, streamMessage was called once, the
\* call stored the history it had read with one pair added, and the
\* placeholder holds the response of the call.
C30_OneGenerationPerTurn ==
  \A t \in Turns :
    turns[t].pc = "completed"
      => /\ Cardinality(CallsOf(t)) = 1
         /\ \A c \in CallsOf(t) :
              /\ Len(service.calls[c].stored) = Len(service.calls[c].history) + 2
              /\ \A m \in Placeholder(chats, turns[t]) :
                   m.content = service.calls[c].response

====
